---- MODULE Spec2Model ----
(***************************************************************************)
(* AES Key Wrap (RFC 3394) and AES Key Wrap with Padding (RFC 5649) as     *)
(* implemented in src/lib.rs.                                              *)
(*                                                                         *)
(* A byte is a number in 0..255 and a byte string a sequence of bytes.     *)
(* A u64 is kept as four 16-bit limbs, most significant first, and a u32   *)
(* as two, so that the conversions between byte strings and integers are   *)
(* computed limb by limb and every intermediate value stays below 2^31.    *)
(*                                                                         *)
(* The single-block cipher of crate crypto2 is an external collaborator.   *)
(* It is modelled as a key-indexed permutation of 16-byte blocks (a        *)
(* Feistel network whose round keys come from the KEK and whose number of  *)
(* rounds depends on the instantiation); decrypt is its inverse.           *)
(*                                                                         *)
(* The library is a set of pure functions.  The state machine is a caller  *)
(* that holds a KEK and a byte string and applies the entry points to it,  *)
(* feeding the output of one call to the next; a panic ends the caller.    *)
(***************************************************************************)
EXTENDS Integers, Sequences, FiniteSets, TLC

\* ------------------------------------------------------------------ bounds
MaxLen == 24      \* longest byte string the caller starts with
MaxCalls == 2     \* number of entry-point calls in one behaviour

\* --------------------------------------------------------------- constants
IV_3394 == <<166, 166, 166, 166, 166, 166, 166, 166>>
IV_5649 == <<166, 89, 89, 166>>

\* ------------------------------------------------------------ byte helpers
RECURSIVE XorN(_, _)
XorN(x, y) ==
    IF x = 0 THEN y
    ELSE IF y = 0 THEN x
    ELSE (((x % 2) + (y % 2)) % 2) + 2 * XorN(x \div 2, y \div 2)

\* &s[from..to] with Rust's half-open, 0-based bounds
Slice(s, from, to) == SubSeq(s, from + 1, to)

to_u8_8_array(array) == [k \in 1..8 |-> array[k]]

to_u8_4_array(array) == [k \in 1..4 |-> array[k]]

\* u32 as <<high 16 bits, low 16 bits>>
u32_from_be_u8(buffer) ==
    << buffer[1] * 256 + buffer[2], buffer[3] * 256 + buffer[4] >>

\* u64 as four 16-bit limbs, most significant first
u64_from_be_u8(buffer) ==
    << buffer[1] * 256 + buffer[2], buffer[3] * 256 + buffer[4],
       buffer[5] * 256 + buffer[6], buffer[7] * 256 + buffer[8] >>

\* u64::to_be_bytes
u64_to_be_bytes(a) ==
    << a[1] \div 256, a[1] % 256, a[2] \div 256, a[2] % 256,
       a[3] \div 256, a[3] % 256, a[4] \div 256, a[4] % 256 >>

\* u32::to_be_bytes of a length (a small natural)
u32_to_be_bytes(x) ==
    << (x \div 16777216) % 256, (x \div 65536) % 256, (x \div 256) % 256, x % 256 >>

\* a ^ (t as u64), t a usize below 2^31
XorCounter(a, t) ==
    << a[1], a[2], XorN(a[3], t \div 65536), XorN(a[4], t % 65536) >>

\* ---------------------------------------------------- the block cipher
RECURSIVE SumBytes(_)
SumBytes(s) == IF s = <<>> THEN 0 ELSE Head(s) + SumBytes(Tail(s))

CipherOf(inst) ==
    CASE inst = "Aes128Kw" -> "Aes128Ecb"
      [] inst = "Aes192Kw" -> "Aes192Ecb"
      [] inst = "Aes256Kw" -> "Aes256Ecb"

Rounds(cipher) ==
    CASE cipher = "Aes128Ecb" -> 2
      [] cipher = "Aes192Ecb" -> 3
      [] cipher = "Aes256Ecb" -> 4

\* the round keys, computed once when the cipher is built
KeySchedule(kek, rounds) ==
    LET sum == SumBytes(kek)
    IN  SubSeq([rnd \in 1..4 |-> (sum + 29 * rnd + Len(kek)) % 256], 1, rounds)

\* $cipher::new(kek)
NewCipher(name, kek) == [name |-> name, keys |-> KeySchedule(kek, Rounds(name))]

Feistel(half, k) ==
    [i \in 1..8 |-> (3 * half[(i % 8) + 1] + half[i] * half[i] + k + i) % 256]

EncRound(block, k) ==
    LET l == SubSeq(block, 1, 8)
        r == SubSeq(block, 9, 16)
        f == Feistel(r, k)
    IN  r \o [i \in 1..8 |-> (l[i] + f[i]) % 256]

DecRound(block, k) ==
    LET l == SubSeq(block, 1, 8)
        r == SubSeq(block, 9, 16)
        f == Feistel(l, k)
    IN  [i \in 1..8 |-> (r[i] + 256 - f[i]) % 256] \o l

RECURSIVE EncFrom(_, _, _)
EncFrom(cipher, block, rnd) ==
    IF rnd > Len(cipher.keys) THEN block
    ELSE EncFrom(cipher, EncRound(block, cipher.keys[rnd]), rnd + 1)

RECURSIVE DecFrom(_, _, _)
DecFrom(cipher, block, rnd) ==
    IF rnd < 1 THEN block
    ELSE DecFrom(cipher, DecRound(block, cipher.keys[rnd]), rnd - 1)

\* cipher.encrypt / cipher.decrypt on one 16-byte block
Encrypt(cipher, block) == EncFrom(cipher, block, 1)

Decrypt(cipher, block) == DecFrom(cipher, block, Len(cipher.keys))

\* one entry of the record of block-cipher calls made by an entry point
CipherCall(dir, cipher, in, out) ==
    [dir |-> dir, cipher |-> cipher.name, in |-> in, out |-> out]

\* ------------------------------------------------------ results of a call
\* out: the returned byte string; iv: the second component returned by
\* aes_unwrap_key_and_iv; log: the block-cipher calls made, in order;
\* inst: the instantiation selected by the dispatch ("none" before it);
\* key_iv, padded: the locals key_iv and key of the unwrap entry points at
\* their integrity check, kept for observation (empty when not reached).
Ok(out, iv, log, inst) ==
    [status |-> "ok", reason |-> "", out |-> out, iv |-> iv,
     log |-> log, inst |-> inst, key_iv |-> <<>>, padded |-> <<>>]

Panic(reason, log, inst) ==
    [status |-> "panic", reason |-> reason, out |-> <<>>, iv |-> <<>>,
     log |-> log, inst |-> inst, key_iv |-> <<>>, padded |-> <<>>]

\* ------------------------------------------- impl_aes_keywrap!: the engine
\* r is indexed 0..n as in the code; r[0] is the unused all-zero entry
WrapRegisters(plaintext, n) ==
    [k \in 0..n |-> IF k = 0 THEN [x \in 1..8 |-> 0]
                    ELSE to_u8_8_array(Slice(plaintext, (k - 1) * 8, (k - 1) * 8 + 8))]

UnwrapRegisters(wrapped, n) ==
    [k \in 0..n |-> IF k = 0 THEN [x \in 1..8 |-> 0]
                    ELSE to_u8_8_array(Slice(wrapped, k * 8, k * 8 + 8))]

\* for v in &r[1..] { out.write(v) }
RECURSIVE JoinFrom(_, _, _)
JoinFrom(r, k, n) == IF k > n THEN <<>> ELSE r[k] \o JoinFrom(r, k + 1, n)

\* the counter with the roles of the round and the block index exchanged
WrapCounter_swapped(n, j, i) == n * i + j

WrapCounter(n, j, i) == n * j + i

\* body of the inner loop of aes_wrap_key_and_iv
WrapStep(cipher, st, n, j, i) ==
    LET block == u64_to_be_bytes(st.a) \o st.r[i]
        ciphertext == Encrypt(cipher, block)
        a == XorCounter(u64_from_be_u8(to_u8_8_array(Slice(ciphertext, 0, 8))),
                        WrapCounter(n, j, i))
    IN  [a |-> a,
         r |-> [st.r EXCEPT ![i] = Slice(ciphertext, 8, 16)],
         log |-> Append(st.log, CipherCall("encrypt", cipher, block, ciphertext))]

\* for i in 1..n + 1.  r[i] is a checked index; it is always in bounds here
\* (r has n + 1 entries), and testing it evaluates the registers of one
\* iteration before the next one is entered.
RECURSIVE WrapInner(_, _, _, _, _)
WrapInner(cipher, st, n, j, i) ==
    IF i >= n + 1 \/ i \notin DOMAIN st.r THEN st
    ELSE WrapInner(cipher, WrapStep(cipher, st, n, j, i), n, j, i + 1)

\* for j in 0..6
RECURSIVE WrapOuter(_, _, _, _)
WrapOuter(cipher, st, n, j) ==
    IF j >= 6 THEN st
    ELSE WrapOuter(cipher, WrapInner(cipher, st, n, j, 1), n, j + 1)

Kw_aes_wrap_key_and_iv(inst, kek, plaintext, iv) ==
    LET n == Len(plaintext) \div 8
        r == WrapRegisters(plaintext, n)
    IN  IF Len(iv) < 8 THEN Panic("slice index", <<>>, inst)
        ELSE
          LET a == u64_from_be_u8(to_u8_8_array(Slice(iv, 0, 8)))
              st == WrapOuter(NewCipher(CipherOf(inst), kek), [a |-> a, r |-> r, log |-> <<>>], n, 0)
              ret == u64_to_be_bytes(st.a) \o JoinFrom(st.r, 1, n)
          IN  Ok(ret, <<>>, st.log, inst)

\* the counter one too high
UnwrapCounter_off_by_one(n, j, i) == n * j + i + 1

UnwrapCounter(n, j, i) == n * j + i

\* the counter mixed into A after the decryption instead of before it
UnwrapStep_xor_after(cipher, st, n, j, i) ==
    LET block == u64_to_be_bytes(st.a) \o st.r[i]
        ciphertext == Decrypt(cipher, block)
    IN  [a |-> XorCounter(u64_from_be_u8(to_u8_8_array(Slice(ciphertext, 0, 8))),
                          UnwrapCounter(n, j, i)),
         r |-> [st.r EXCEPT ![i] = Slice(ciphertext, 8, 16)],
         log |-> Append(st.log, CipherCall("decrypt", cipher, block, ciphertext))]

\* body of the inner loop of aes_unwrap_key_and_iv
UnwrapStep(cipher, st, n, j, i) ==
    LET block == u64_to_be_bytes(XorCounter(st.a, UnwrapCounter(n, j, i))) \o st.r[i]
        ciphertext == Decrypt(cipher, block)
    IN  [a |-> u64_from_be_u8(to_u8_8_array(Slice(ciphertext, 0, 8))),
         r |-> [st.r EXCEPT ![i] = Slice(ciphertext, 8, 16)],
         log |-> Append(st.log, CipherCall("decrypt", cipher, block, ciphertext))]

\* for i in (1..n + 1).rev(), with the checked index r[i] as in WrapInner
RECURSIVE UnwrapInner(_, _, _, _, _)
UnwrapInner(cipher, st, n, j, i) ==
    IF i < 1 \/ i \notin DOMAIN st.r THEN st
    ELSE UnwrapInner(cipher, UnwrapStep(cipher, st, n, j, i), n, j, i - 1)

\* for j in (0..6).rev()
RECURSIVE UnwrapOuter(_, _, _, _)
UnwrapOuter(cipher, st, n, j) ==
    IF j < 0 THEN st
    ELSE UnwrapOuter(cipher, UnwrapInner(cipher, st, n, j, n), n, j - 1)

\* wrapped.len() / 8 - 1 underflows below 8 bytes: a build with overflow
\* checks panics there, a build without them wraps n to usize::MAX, skips
\* both loops (n + 1 wraps to 0) and panics at &wrapped[..8].
Kw_aes_unwrap_key_and_iv(inst, kek, wrapped) ==
    IF Len(wrapped) < 8
    THEN Panic("arithmetic overflow or slice index", <<>>, inst)
    ELSE
      LET n == Len(wrapped) \div 8 - 1
          r == UnwrapRegisters(wrapped, n)
          a == u64_from_be_u8(to_u8_8_array(Slice(wrapped, 0, 8)))
          st == UnwrapOuter(NewCipher(CipherOf(inst), kek), [a |-> a, r |-> r, log |-> <<>>], n, 5)
          key == JoinFrom(st.r, 1, n)
      IN  Ok(key, u64_to_be_bytes(st.a), st.log, inst)


\* ------------------------------------------------ dispatch on kek.len()
\* the 24-byte arm selecting the 128-bit instantiation
Dispatch_wrong_arm(kek) ==
    CASE Len(kek) = 16 -> "Aes128Kw"
      [] Len(kek) = 24 -> "Aes128Kw"
      [] Len(kek) = 32 -> "Aes256Kw"
      [] OTHER -> "none"

Dispatch(kek) ==
    CASE Len(kek) = 16 -> "Aes128Kw"
      [] Len(kek) = 24 -> "Aes192Kw"
      [] Len(kek) = 32 -> "Aes256Kw"
      [] OTHER -> "none"

aes_unwrap_key_and_iv(kek, wrapped) ==
    IF Dispatch(kek) = "none" THEN Panic("kek is not supported", <<>>, "none")
    ELSE Kw_aes_unwrap_key_and_iv(Dispatch(kek), kek, wrapped)

\* the key returned without comparing key_iv with IV_3394
aes_unwrap_key_unchecked(kek, wrapped) ==
    LET res == aes_unwrap_key_and_iv(kek, wrapped)
    IN  IF res.status = "panic" THEN res
        ELSE [Ok(res.out, <<>>, res.log, res.inst) EXCEPT !.key_iv = res.iv, !.padded = res.out]

aes_unwrap_key(kek, wrapped) ==
    LET res == aes_unwrap_key_and_iv(kek, wrapped)
    IN  IF res.status = "panic" THEN res
        ELSE IF res.iv # IV_3394
        THEN [Panic("ERROR", res.log, res.inst) EXCEPT !.key_iv = res.iv, !.padded = res.out]
        ELSE [Ok(res.out, <<>>, res.log, res.inst) EXCEPT !.key_iv = res.iv, !.padded = res.out]

aes_wrap_key_and_iv(kek, plaintext, iv) ==
    IF Dispatch(kek) = "none" THEN Panic("kek is not supported", <<>>, "none")
    ELSE Kw_aes_wrap_key_and_iv(Dispatch(kek), kek, plaintext, iv)

aes_wrap_key(kek, plaintext) == aes_wrap_key_and_iv(kek, plaintext, IV_3394)

\* ------------------------------------ impl_aes_keywrap!: RFC 5649 padding
\* Rust's % truncates towards zero
RustRem(x, m) == IF x >= 0 THEN x % m ELSE 0 - ((0 - x) % m)

Abs(x) == IF x >= 0 THEN x ELSE 0 - x

\* ((8 - plaintext.len() as i32) % 8).abs() as usize
PadCount(len) == Abs(RustRem(8 - len, 8))

Zeros(k) == [x \in 1..k |-> 0]

\* key[..key_len] with key_len a u32 held as two limbs; key.len() < 2^16
SliceTo(key, key_len) ==
    IF key_len[1] > 0 \/ key_len[2] > Len(key)
    THEN [ok |-> FALSE, val |-> <<>>]
    ELSE [ok |-> TRUE, val |-> Slice(key, 0, key_len[2])]

Kw_aes_unwrap_key_with_pad(inst, kek, wrapped) ==
    LET res == IF Len(wrapped) = 16
               THEN LET cipher == NewCipher(CipherOf(inst), kek)
                        plaintext == Decrypt(cipher, wrapped)
                    IN  Ok(Slice(plaintext, 8, 16), Slice(plaintext, 0, 8),
                           << CipherCall("decrypt", cipher, wrapped, plaintext) >>,
                           inst)
               ELSE aes_unwrap_key_and_iv(kek, wrapped)
        key == res.out
        key_iv == res.iv
    IN  IF res.status = "panic" THEN res
        ELSE IF IV_5649 # to_u8_4_array(Slice(key_iv, 0, 4))
        THEN [Panic("Integrity Check Failed", res.log, inst)
                EXCEPT !.key_iv = key_iv, !.padded = key]
        ELSE
          LET key_len == u32_from_be_u8(to_u8_4_array(Slice(key_iv, 4, 8)))
              cut == SliceTo(key, key_len)
          IN  IF ~cut.ok
              THEN [Panic("slice index", res.log, inst)
                      EXCEPT !.key_iv = key_iv, !.padded = key]
              ELSE [Ok(cut.val, <<>>, res.log, inst)
                      EXCEPT !.key_iv = key_iv, !.padded = key]

Kw_aes_wrap_key_with_pad(inst, kek, plaintext) ==
    LET iv == IV_5649 \o u32_to_be_bytes(Len(plaintext))
        pad_pt == plaintext \o Zeros(PadCount(Len(plaintext)))
    IN  IF Len(pad_pt) = 8
        THEN LET cipher == NewCipher(CipherOf(inst), kek)
                 block == iv \o pad_pt
                 wrapped == Encrypt(cipher, block)
             IN  [Ok(wrapped, <<>>,
                     << CipherCall("encrypt", cipher, block, wrapped) >>, inst)
                    EXCEPT !.padded = pad_pt]
        ELSE [aes_wrap_key_and_iv(kek, pad_pt, iv) EXCEPT !.padded = pad_pt]

aes_unwrap_key_with_pad(kek, wrapped) ==
    IF Dispatch(kek) = "none" THEN Panic("kek is not supported", <<>>, "none")
    ELSE Kw_aes_unwrap_key_with_pad(Dispatch(kek), kek, wrapped)

aes_wrap_key_with_pad(kek, plaintext) ==
    IF Dispatch(kek) = "none" THEN Panic("kek is not supported", <<>>, "none")
    ELSE Kw_aes_wrap_key_with_pad(Dispatch(kek), kek, plaintext)

\* ------------------------------------------------------ the caller
VARIABLES kek, data, calls, pc

vars == << kek, data, calls, pc >>

Pattern(len) == [k \in 1..len |-> (17 * k + 3) % 256]

Key(len) == [k \in 1..len |-> (k - 1) % 256]

\* KEKs the caller may hold: the three supported sizes and one that is not
KEKS == { Key(15), Key(16), Key(24), Key(32) }

\* byte strings the caller may start with
DATA == { Pattern(len) : len \in 0..MaxLen }
          \cup { IV_3394, IV_5649 \o <<0, 0, 0, 0>> }

\* initial values the caller may pass to aes_wrap_key_and_iv
IVS == { IV_3394,
         <<1, 2, 3, 4, 5, 6, 7, 8>>,
         IV_5649 \o <<0, 0, 0, 1>>,
         IV_5649 \o <<0, 0, 0, 16>>,
         IV_5649 \o <<255, 255, 255, 255>>,
         IV_5649 }

Init ==
    /\ kek \in KEKS
    /\ data \in DATA
    /\ calls = <<>>
    /\ pc = "ready"

\* the caller applies one entry point to the byte string it holds;
\* a caller that has not panicked may make another call
CanCall == pc = "ready" /\ Len(calls) < MaxCalls

Call(op, iv, res) ==
    /\ calls' = Append(calls, [op |-> op, input |-> data, iv |-> iv, res |-> res])
    /\ data' = IF res.status = "ok" THEN res.out ELSE data
    /\ pc' = IF res.status = "ok" THEN "ready" ELSE "aborted"
    /\ UNCHANGED kek

CallWrapKey ==
    CanCall /\ \E res \in {aes_wrap_key(kek, data)} : Call("aes_wrap_key", <<>>, res)

CallWrapKeyAndIv ==
    CanCall /\ \E iv \in IVS : \E res \in {aes_wrap_key_and_iv(kek, data, iv)} :
                  Call("aes_wrap_key_and_iv", iv, res)

CallUnwrapKey ==
    CanCall /\ \E res \in {aes_unwrap_key(kek, data)} : Call("aes_unwrap_key", <<>>, res)

CallUnwrapKeyAndIv ==
    CanCall /\ \E res \in {aes_unwrap_key_and_iv(kek, data)} :
                  Call("aes_unwrap_key_and_iv", <<>>, res)

CallWrapKeyWithPad ==
    CanCall /\ \E res \in {aes_wrap_key_with_pad(kek, data)} :
                  Call("aes_wrap_key_with_pad", <<>>, res)

CallUnwrapKeyWithPad ==
    CanCall /\ \E res \in {aes_unwrap_key_with_pad(kek, data)} :
                  Call("aes_unwrap_key_with_pad", <<>>, res)

Next ==
    \/ CallWrapKey
    \/ CallWrapKeyAndIv
    \/ CallUnwrapKey
    \/ CallUnwrapKeyAndIv
    \/ CallWrapKeyWithPad
    \/ CallUnwrapKeyWithPad

Spec == Init /\ [][Next]_vars

\* ================================================================ claims
Supported == Len(kek) \in {16, 24, 32}

Calls == 1..Len(calls)

IsWrapThenUnwrap(k, wrapOp, unwrapOp) ==
    /\ k >= 2
    /\ calls[k - 1].op = wrapOp
    /\ calls[k].op = unwrapOp

RoundUp8(len) == ((len + 7) \div 8) * 8

\* byte k (1..8) of the counter t written as a 64-bit big-endian integer
CounterByte(t, k) ==
    CASE k = 8 -> t % 256
      [] k = 7 -> (t \div 256) % 256
      [] k = 6 -> (t \div 65536) % 256
      [] k = 5 -> (t \div 16777216) % 256
      [] OTHER -> 0

XorBE(bytes, t) == [k \in 1..8 |-> XorN(bytes[k], CounterByte(t, k))]

High(block) == SubSeq(block, 1, 8)

Low(block) == SubSeq(block, 9, 16)

Block8(s, i) == SubSeq(s, 8 * (i - 1) + 1, 8 * i)

\* C1: with a supported KEK, aes_unwrap_key applied to the output of
\* aes_wrap_key on a plaintext whose length is a positive multiple of 8
\* succeeds and returns exactly that plaintext.
C1_UnpaddedRoundTrip ==
    \A k \in Calls :
        ( /\ IsWrapThenUnwrap(k, "aes_wrap_key", "aes_unwrap_key")
          /\ Supported
          /\ Len(calls[k - 1].input) > 0
          /\ Len(calls[k - 1].input) % 8 = 0 )
        => ( /\ calls[k].res.status = "ok"
             /\ calls[k].res.out = calls[k - 1].input )

C1_Witness ==
    /\ Len(calls) = 2
    /\ IsWrapThenUnwrap(2, "aes_wrap_key", "aes_unwrap_key")
    /\ Len(kek) = 24
    /\ Len(calls[1].input) = 16
    /\ calls[2].input = calls[1].res.out
    /\ calls[2].res.out = calls[1].input

\* C2: with a supported KEK, aes_unwrap_key_with_pad applied to the output
\* of aes_wrap_key_with_pad on a plaintext of any positive length succeeds
\* and returns exactly that plaintext.
C2_PaddedRoundTrip ==
    \A k \in Calls :
        ( /\ IsWrapThenUnwrap(k, "aes_wrap_key_with_pad", "aes_unwrap_key_with_pad")
          /\ Supported
          /\ Len(calls[k - 1].input) >= 1 )
        => ( /\ calls[k].res.status = "ok"
             /\ calls[k].res.out = calls[k - 1].input )

\* C3: with a supported KEK and a plaintext of length L >= 1,
\* aes_wrap_key_with_pad appends 0 to 7 zero bytes to reach the next multiple
\* of 8, and its output has 16 bytes when L <= 8 and RoundUp8(L) + 8 otherwise.
C3_PaddedLengthLaw ==
    \A k \in Calls :
        ( /\ calls[k].op = "aes_wrap_key_with_pad"
          /\ Supported
          /\ Len(calls[k].input) >= 1 )
        => LET L == Len(calls[k].input)
               res == calls[k].res
           IN  /\ res.status = "ok"
               /\ Len(res.padded) - L \in 0..7
               /\ Len(res.padded) = RoundUp8(L)
               /\ res.padded = calls[k].input \o Zeros(RoundUp8(L) - L)
               /\ Len(res.out) = IF L <= 8 THEN 16 ELSE RoundUp8(L) + 8

\* C4: aes_unwrap_key returns a plaintext only when the recovered accumulator
\* equals IV_3394 on all 8 bytes, aes_unwrap_key_with_pad only when the first
\* 4 bytes of the recovered IV register equal IV_5649; a call that reaches the
\* check with any other value fails, and a failed call returns no bytes.
C4_IntegrityFailsClosed ==
    \A k \in Calls :
        LET res == calls[k].res
        IN  /\ calls[k].op = "aes_unwrap_key"
                => /\ res.status = "ok" => res.key_iv = IV_3394
                   /\ (Len(res.key_iv) = 8 /\ res.key_iv # IV_3394)
                         => res.status # "ok"
            /\ calls[k].op = "aes_unwrap_key_with_pad"
                => /\ res.status = "ok" => SubSeq(res.key_iv, 1, 4) = IV_5649
                   /\ (Len(res.key_iv) = 8 /\ SubSeq(res.key_iv, 1, 4) # IV_5649)
                         => res.status # "ok"
            /\ res.status # "ok" => (res.out = <<>> /\ data = calls[k].input)

C4_Witness ==
    /\ Len(calls) = 2
    /\ calls[1].op = "aes_wrap_key_and_iv"
    /\ calls[2].op = "aes_unwrap_key"
    /\ Len(calls[2].res.key_iv) = 8
    /\ calls[2].res.key_iv # IV_3394
    /\ calls[2].res.padded = calls[1].input
    /\ calls[2].res.status = "panic"
    /\ calls[2].res.out = <<>>

\* C5: every entry point called with a KEK whose length is not 16, 24 or 32
\* fails with no output and without any block-cipher call; a KEK of 16, 24 or
\* 32 bytes selects Aes128Kw, Aes192Kw or Aes256Kw, whose cipher makes every
\* block-cipher call of the entry point.
ExpectedInst ==
    CASE Len(kek) = 16 -> "Aes128Kw"
      [] Len(kek) = 24 -> "Aes192Kw"
      [] Len(kek) = 32 -> "Aes256Kw"
      [] OTHER -> "none"

ExpectedCipher ==
    CASE Len(kek) = 16 -> "Aes128Ecb"
      [] Len(kek) = 24 -> "Aes192Ecb"
      [] Len(kek) = 32 -> "Aes256Ecb"
      [] OTHER -> "none"

C5_KeySizeDispatch ==
    \A k \in Calls :
        LET res == calls[k].res
        IN  /\ ~Supported => /\ res.status # "ok"
                             /\ res.reason = "kek is not supported"
                             /\ res.out = <<>>
                             /\ res.iv = <<>>
                             /\ res.log = <<>>
            /\ Supported => /\ res.inst = ExpectedInst
                            /\ \A c \in 1..Len(res.log) :
                                   res.log[c].cipher = ExpectedCipher

C5_Witness ==
    /\ Len(calls) = 1
    /\ Len(kek) = 15
    /\ calls[1].op = "aes_unwrap_key_with_pad"
    /\ Len(calls[1].input) = 16
    /\ calls[1].res.status = "panic"
    /\ calls[1].res.log = <<>>

\* C6: aes_unwrap_key_with_pad returns a plaintext only when the length
\* declared in bytes 4..8 of the recovered IV register lies in
\* (padded_length - 8, padded_length].
DeclaredLen(key_iv) ==
    IF key_iv[5] > 0 \/ key_iv[6] > 0 THEN 65536
    ELSE key_iv[7] * 256 + key_iv[8]

C6_LengthFieldValidated ==
    \A k \in Calls :
        ( /\ calls[k].op = "aes_unwrap_key_with_pad"
          /\ calls[k].res.status = "ok" )
        => LET declared == DeclaredLen(calls[k].res.key_iv)
               padded_length == Len(calls[k].res.padded)
           IN  /\ declared > padded_length - 8
               /\ declared <= padded_length

\* C7: aes_wrap_key and aes_wrap_key_and_iv fail on a plaintext whose length
\* is not a positive multiple of 8; aes_unwrap_key and aes_unwrap_key_and_iv
\* fail on an input whose length is not a multiple of 8 or is below 16; a
\* failed call produces no output.
C7_InputLengthValidated ==
    \A k \in Calls :
        LET len == Len(calls[k].input)
            res == calls[k].res
        IN  /\ ( /\ calls[k].op \in {"aes_wrap_key", "aes_wrap_key_and_iv"}
                 /\ (len = 0 \/ len % 8 # 0) )
                => (res.status # "ok" /\ res.out = <<>>)
            /\ ( /\ calls[k].op \in {"aes_unwrap_key", "aes_unwrap_key_and_iv"}
                 /\ (len < 16 \/ len % 8 # 0) )
                => (res.status # "ok" /\ res.out = <<>>)

\* C8: no call to any entry point ends in a panic.
C8_NoPanic ==
    /\ pc # "aborted"
    /\ \A k \in Calls : calls[k].res.status # "panic"

\* C9: with a supported KEK, an 8-byte iv and a plaintext of n >= 1 8-byte
\* blocks, aes_wrap_key_and_iv makes exactly 6n encryptions; the t-th one
\* (t = 1..6n, i.e. j = (t-1) div n ascending and i = ((t-1) mod n) + 1
\* ascending) encrypts A || R[i], where A is iv for t = 1 and otherwise the
\* high half of the previous result XOR the counter t - 1, and R[i] is block i
\* of the plaintext in round 0 and otherwise the low half of the result n
\* calls earlier; the output is A || R[1] || ... || R[n], 8 * (n + 1) bytes.
WrapChain(c) ==
    LET n == Len(c.input) \div 8
        log == c.res.log
        out == c.res.out
    IN  /\ c.res.status = "ok"
        /\ Len(log) = 6 * n
        /\ \A t \in 1..(6 * n) :
              LET i == ((t - 1) % n) + 1
              IN  /\ log[t].dir = "encrypt"
                  /\ High(log[t].in) = IF t = 1 THEN c.iv
                                       ELSE XorBE(High(log[t - 1].out), t - 1)
                  /\ Low(log[t].in) = IF t <= n THEN Block8(c.input, i)
                                      ELSE Low(log[t - n].out)
                  /\ log[t].out = Encrypt(NewCipher(ExpectedCipher, kek), log[t].in)
        /\ Len(out) = 8 * (n + 1)
        /\ Block8(out, 1) = XorBE(High(log[6 * n].out), 6 * n)
        /\ \A i \in 1..n : Block8(out, i + 1) = Low(log[5 * n + i].out)

C9Case(k) ==
    /\ calls[k].op = "aes_wrap_key_and_iv"
    /\ Supported
    /\ Len(calls[k].iv) = 8
    /\ Len(calls[k].input) >= 8
    /\ Len(calls[k].input) % 8 = 0

C9_WrapChaining == \A k \in Calls : C9Case(k) => WrapChain(calls[k])

C9_Witness ==
    /\ Len(calls) = 1
    /\ C9Case(1)
    /\ Len(calls[1].input) = 16
    /\ calls[1].iv = <<1, 2, 3, 4, 5, 6, 7, 8>>
    /\ Len(calls[1].res.log) = 12
    /\ Len(calls[1].res.out) = 24

\* C10: with a supported KEK, aes_unwrap_key_and_iv on an input of 8 * (n + 1)
\* bytes, n >= 1, never fails, whatever iv it recovers; it makes 6n
\* decryptions, for t = 6n down to 1 (j = 5..0, i = n..1) of the block
\* (A XOR t) || R[i]; and applied to the output of aes_wrap_key_and_iv on a
\* plaintext of n >= 1 blocks under any 8-byte iv it returns that plaintext
\* and that iv.
UnwrapChain(c) ==
    LET n == Len(c.input) \div 8 - 1
        log == c.res.log
    IN  /\ c.res.status = "ok"
        /\ Len(log) = 6 * n
        /\ \A s \in 1..(6 * n) :
              LET t == 6 * n - s + 1
                  i == ((t - 1) % n) + 1
              IN  /\ log[s].dir = "decrypt"
                  /\ High(log[s].in) =
                        XorBE(IF s = 1 THEN Block8(c.input, 1)
                              ELSE High(log[s - 1].out), t)
                  /\ Low(log[s].in) = IF s <= n THEN Block8(c.input, i + 1)
                                      ELSE Low(log[s - n].out)
                  /\ log[s].out = Decrypt(NewCipher(ExpectedCipher, kek), log[s].in)
        /\ c.res.iv = High(log[6 * n].out)
        /\ Len(c.res.out) = 8 * n
        /\ \A i \in 1..n : Block8(c.res.out, i) = Low(log[6 * n - i + 1].out)

C10Case(k) ==
    /\ calls[k].op = "aes_unwrap_key_and_iv"
    /\ Supported
    /\ Len(calls[k].input) >= 16
    /\ Len(calls[k].input) % 8 = 0

C10_UnwrapInvertsWrap ==
    \A k \in Calls :
        /\ C10Case(k) => UnwrapChain(calls[k])
        /\ ( /\ IsWrapThenUnwrap(k, "aes_wrap_key_and_iv", "aes_unwrap_key_and_iv")
             /\ C9Case(k - 1) )
           => ( /\ calls[k].res.status = "ok"
                /\ calls[k].res.out = calls[k - 1].input
                /\ calls[k].res.iv = calls[k - 1].iv )

C10_Witness ==
    /\ Len(calls) = 2
    /\ IsWrapThenUnwrap(2, "aes_wrap_key_and_iv", "aes_unwrap_key_and_iv")
    /\ C9Case(1)
    /\ C10Case(2)
    /\ Len(calls[1].input) = 16
    /\ calls[1].iv = <<1, 2, 3, 4, 5, 6, 7, 8>>
    /\ calls[2].res.iv = <<1, 2, 3, 4, 5, 6, 7, 8>>
    /\ calls[2].res.out = calls[1].input

====
